---- MODULE Spec2Model ----
(***************************************************************************)
(* A proof-of-work node: the block/header data model (block.rs), the       *)
(* mempool (mempool.rs) and the miner worker (miner.rs).                   *)
(*                                                                         *)
(* The specifications share the state of one node:                         *)
(*   Spec         the running node: the miner thread inside miner_loop,    *)
(*                the owner of the Handle, the transaction generator and   *)
(*                a network worker, interleaved;                           *)
(*   SpecControl  the same node with an owner who sends several control    *)
(*                signals and a quieter network;                           *)
(*   SpecLive     the same node with a fair scheduler and a miner that     *)
(*                is free to run any number of bursts;                     *)
(*   SpecTest     the single-threaded harness of tests::test_miner:        *)
(*                mining() called directly, from any nonce cursor,         *)
(*                difficulty and pool;                                     *)
(*   SpecPool     the mempool on its own, as the tests of mempool.rs use   *)
(*                it: constructors and methods called in any order;        *)
(*   SpecNet      three nodes in a line and the gossip of new blocks       *)
(*                between them (test_block_relay, test_mempool_clear).     *)
(***************************************************************************)
EXTENDS Integers, Sequences, FiniteSets, TLC

(***************************************************************************)
(* Bounds of the model                                                     *)
(***************************************************************************)
\* config::MINING_STEP, POOL_SIZE_LIMIT, BLOCK_SIZE_LIMIT: the values are set
\* in config.rs; the model runs them scaled down.
MINING_STEP == 3
POOL_SIZE_LIMIT == 2
BLOCK_SIZE_LIMIT == 1
\* signals the owner of the Handle sends in one run
MaxSends == 3
\* calls of mining() in one run of the node
MaxBursts == 2
\* calls of mining() in one run of the test harness
TestBursts == 1
\* blocks a peer delivers to the network worker in one run
MaxPeerBlocks == 1
\* transactions offered to the mempool by other threads in one run
MaxAdds == 2
\* config::BLOCK_SIZE_LIMIT in the runs of the mempool on its own
PoolBlockSize == 2
\* blocks committed on the nodes of the network in one run
MaxCommits == 2

\* what the environment does at most in this run, and the run's
\* config::BLOCK_SIZE_LIMIT (limit.block_size); never changes
VARIABLE limit

(***************************************************************************)
(* Bytes, u32, u64, H256                                                   *)
(***************************************************************************)
HashLen == 32
Half == 65536

\* a u32 is kept as its two 16-bit halves, so that wrapping at 2^32 is exact
U32(hi, lo) == [hi |-> hi, lo |-> lo]

U32OfNat(k) == U32(k \div Half, k % Half)

\* u32::overflowing_add(k).0 for 0 <= k < 2^16
U32Add(n, k) ==
    LET s == n.lo + k
    IN  U32((n.hi + (s \div Half)) % Half, s % Half)

U32Max == U32(Half - 1, Half - 1)

RECURSIVE BEBytes(_, _)
\* the n low-order bytes of v, most significant first (to_be_bytes)
BEBytes(v, n) ==
    IF n = 0 THEN << >> ELSE Append(BEBytes(v \div 256, n - 1), v % 256)

U32Bytes(n) == BEBytes(n.hi, 2) \o BEBytes(n.lo, 2)

ZeroHash == [i \in 1..HashLen |-> 0]

RECURSIVE LexLess(_, _, _)
\* H256's order: the 32 bytes compared as one big-endian unsigned integer
LexLess(a, b, i) ==
    IF i > HashLen THEN FALSE
    ELSE IF a[i] # b[i] THEN a[i] < b[i]
    ELSE LexLess(a, b, i + 1)

HashLess(a, b) == LexLess(a, b, 1)

\* helper::gen_difficulty_array(n): n/8 zero bytes, then 0xFF >> (n mod 8),
\* then 0xFF
gen_difficulty_array(n) ==
    [i \in 1..HashLen |->
        IF i - 1 < n \div 8 THEN 0
        ELSE IF i - 1 = n \div 8 THEN 255 \div (2 ^ (n % 8))
        ELSE 255]

DigestModulus == 32749

\* the weight of position i
Weight(i) == (7919 * i + 13) % DigestModulus

Term(bytes, i) == (bytes[i] + 1) * Weight(i)

RECURSIVE Absorb(_, _, _)
\* the bytes lo..hi, each weighted by its position, summed by halves
Absorb(bytes, lo, hi) ==
    IF hi - lo >= 4
    THEN LET mid == (lo + hi) \div 2
         IN  (Absorb(bytes, lo, mid) + Absorb(bytes, mid + 1, hi)) % DigestModulus
    ELSE IF hi - lo = 3
    THEN (Term(bytes, lo) + Term(bytes, lo + 1) + Term(bytes, lo + 2)
            + Term(bytes, lo + 3)) % DigestModulus
    ELSE IF lo > hi THEN 0
    ELSE (Term(bytes, lo) + Absorb(bytes, lo + 1, hi)) % DigestModulus

\* SHA-256 stands as a fixed mixing function of every input byte and its
\* position, with a 32-byte output
Digest(bytes) ==
    LET Spread(acc) ==
            [i \in 1..HashLen |->
                IF i = 1 THEN acc % 256 ELSE ((acc \div 256) + 7 * i) % 256]
    IN  \* the sum is computed once
        CHOOSE hash \in {Spread((sum * sum + 3 * sum + 1) % DigestModulus) :
                            sum \in {Absorb(bytes, 1, Len(bytes))}} : TRUE

(***************************************************************************)
(* Transactions (consumed interface: hash and sign_check)                  *)
(***************************************************************************)
\* the transactions of a run, by identity: those of ValidIds carry a valid
\* signature, transaction 0 does not
ValidIds == {1, 2, 3}

TxHashOf(id) == [k \in 1..HashLen |-> (37 * id + k) % 256]

Tx(id) == [id |-> id, hash |-> TxHashOf(id), signed |-> id # 0]

ValidTx == {Tx(id) : id \in ValidIds}

Transactions == ValidTx \cup {Tx(0)}

\* Hashable for SignedTransaction: hash() is a function of the transaction's
\* bytes; the field hash holds that value since the constructor
tx_hash(t) == TxHashOf(t.id)

sign_check(t) == t.signed

(***************************************************************************)
(* block.rs: Header, Content, Block                                        *)
(***************************************************************************)
\* Header::new; timestamp is u128 cast to u64
Header_new(parent, nonce, timestamp, difficulty, merkle_root) ==
    [parent |-> parent, nonce |-> nonce, difficulty |-> difficulty,
     timestamp |-> timestamp, merkle_root |-> merkle_root]

\* Header::hash that feeds the nonce with to_le_bytes
HeaderPreimageLittleEndian(h) ==
    LET n == U32Bytes(h.nonce)
    IN  h.parent \o << n[4], n[3], n[2], n[1] >> \o h.difficulty
            \o BEBytes(h.timestamp, 8) \o h.merkle_root

\* the bytes Header::hash feeds to the digest, in the order of the updates
HeaderPreimage(h) ==
    h.parent \o U32Bytes(h.nonce) \o h.difficulty
        \o BEBytes(h.timestamp, 8) \o h.merkle_root

\* Header::hash: the digest of the pre-image, which is built once
Header_hash(h) ==
    CHOOSE hash \in {Digest(bytes) : bytes \in {HeaderPreimage(h)}} : TRUE

\* change_nonce with a saturating addition
change_nonceSaturating(h) ==
    IF h.nonce = U32Max THEN h ELSE [h EXCEPT !.nonce = U32Add(h.nonce, 1)]

\* Header::change_nonce: overflowing_add(1).0
change_nonce(h) == [h EXCEPT !.nonce = U32Add(h.nonce, 1)]

Content_new_with_trans(trans) == [trans |-> trans]

\* Content::get_trans_hashes
get_trans_hashes(content) ==
    [i \in 1..Len(content.trans) |-> content.trans[i].hash]

RECURSIVE MerkleLevel(_)
\* one level up: adjacent pairs, the last node doubled when the count is odd
MerkleLevel(nodes) ==
    IF Len(nodes) = 0 THEN << >>
    ELSE IF Len(nodes) = 1 THEN << Digest(nodes[1] \o nodes[1]) >>
    ELSE << Digest(nodes[1] \o nodes[2]) >> \o MerkleLevel(SubSeq(nodes, 3, Len(nodes)))

RECURSIVE MerkleFold(_)
MerkleFold(nodes) ==
    IF Len(nodes) = 1 THEN nodes[1] ELSE MerkleFold(MerkleLevel(nodes))

\* Content::merkle_root: MerkleTree::new(&self.trans).root()
merkle_root(content) ==
    IF Len(content.trans) = 0 THEN ZeroHash
    ELSE MerkleFold([i \in 1..Len(content.trans) |-> tx_hash(content.trans[i])])

\* Block::new that hashes the header as it was before the nonce search
Block_newFirstNonce(header, content) ==
    [hash |-> Header_hash([header EXCEPT !.nonce = U32OfNat(0)]), index |-> 0,
     header |-> header, content |-> content]

\* Block::new
Block_new(header, content) ==
    [hash |-> Header_hash(header), index |-> 0,
     header |-> header, content |-> content]

DIFFICULTY == 1

\* Block::genesis
Block_genesis ==
    [hash |-> ZeroHash, index |-> 0,
     header |-> [parent |-> ZeroHash, nonce |-> U32OfNat(0),
                 difficulty |-> gen_difficulty_array(DIFFICULTY),
                 timestamp |-> 0, merkle_root |-> ZeroHash],
     content |-> [trans |-> << >>]]

(***************************************************************************)
(* mempool.rs: MemPool, a map from transaction hash to transaction         *)
(***************************************************************************)
MemPool_new == << >>

size(pool) == Cardinality(DOMAIN pool)

empty(pool) == DOMAIN pool = {}

exist(pool, hash) == hash \in DOMAIN pool

\* HashMap::insert
MapInsert(pool, k, v) == [h \in DOMAIN pool \cup {k} |-> IF h = k THEN v ELSE pool[h]]

\* HashMap::remove
MapRemove(pool, k) == [h \in DOMAIN pool \ {k} |-> pool[h]]

RECURSIVE new_with_trans_from(_, _, _)
new_with_trans_from(trans, i, pool) ==
    IF i > Len(trans) THEN pool
    ELSE new_with_trans_from(trans, i + 1, MapInsert(pool, tx_hash(trans[i]), trans[i]))

\* MemPool::new_with_trans
new_with_trans(trans) == new_with_trans_from(trans, 1, << >>)

\* add_with_check that compares the size with > instead of >=
add_with_checkOverfull(pool, tran) ==
    LET hash == tx_hash(tran)
    IN  IF exist(pool, hash) \/ ~sign_check(tran) \/ size(pool) > POOL_SIZE_LIMIT
        THEN [ok |-> FALSE, pool |-> pool]
        ELSE [ok |-> TRUE, pool |-> MapInsert(pool, hash, tran)]

\* MemPool::add_with_check: the result and the pool afterwards
add_with_check(pool, tran) ==
    LET hash == tx_hash(tran)
    IN  IF exist(pool, hash) \/ ~sign_check(tran) \/ size(pool) >= POOL_SIZE_LIMIT
        THEN [ok |-> FALSE, pool |-> pool]
        ELSE [ok |-> TRUE, pool |-> MapInsert(pool, hash, tran)]

\* remove_trans whose loop ends at the first hash that is not in the pool
RECURSIVE remove_trans_fromStopAtMiss(_, _, _)
remove_trans_fromStopAtMiss(pool, trans, i) ==
    IF i > Len(trans) THEN pool
    ELSE IF trans[i] \in DOMAIN pool
         THEN remove_trans_fromStopAtMiss(MapRemove(pool, trans[i]), trans, i + 1)
         ELSE pool

RECURSIVE remove_trans_from(_, _, _)
remove_trans_from(pool, trans, i) ==
    IF i > Len(trans) THEN pool
    ELSE IF trans[i] \in DOMAIN pool
         THEN remove_trans_from(MapRemove(pool, trans[i]), trans, i + 1)
         ELSE remove_trans_from(pool, trans, i + 1)

\* remove_trans whose loop starts one entry late
remove_transLate(pool, trans) == remove_trans_from(pool, trans, 2)

\* MemPool::remove_trans
remove_trans(pool, trans) == remove_trans_from(pool, trans, 1)

\* sequences of n pairwise different members of S
RECURSIVE Arrangements(_, _)
Arrangements(S, n) ==
    IF n = 0 THEN {<< >>}
    ELSE UNION {{<<x>> \o r : r \in Arrangements(S \ {x}, n - 1)} : x \in S}

Min(a, b) == IF a < b THEN a ELSE b

\* create_content that fills the block from the first entry of the map alone
create_contentRepeat(pool) ==
    LET trans_num == Min(limit.block_size, size(pool))
    IN  {Content_new_with_trans([i \in 1..trans_num |-> t]) :
            t \in {pool[h] : h \in DOMAIN pool}}

\* MemPool::create_content: the first min(BLOCK_SIZE_LIMIT, size) entries in
\* the map's iteration order, which is any order
create_content(pool) ==
    LET trans_num == Min(limit.block_size, size(pool))
    IN  {Content_new_with_trans(trans) :
            trans \in Arrangements({pool[h] : h \in DOMAIN pool}, trans_num)}

\* MemPool::get_trans
get_trans(pool, hashes) ==
    LET F[i \in 0..Len(hashes)] ==
            IF i = 0 THEN << >>
            ELSE IF hashes[i] \in DOMAIN pool THEN Append(F[i - 1], pool[hashes[i]])
            ELSE F[i - 1]
    IN  F[Len(hashes)]

(***************************************************************************)
(* Blockchain (consumed by the miner): blocks by hash, tip, difficulty     *)
(***************************************************************************)
EASIEST_DIF == 2

\* Blockchain::new followed by change_difficulty, as new_server_env does
Blockchain_new(bits) ==
    [blocks |-> (ZeroHash :> Block_genesis), tip |-> ZeroHash,
     difficulty |-> gen_difficulty_array(bits)]

chain_tip(chain) == chain.tip

chain_difficulty(chain) == chain.difficulty

\* number of blocks from genesis to the tip, both included
chain_length(chain) == chain.blocks[chain.tip].index + 1

change_difficulty(chain, new_difficulty) ==
    [chain EXCEPT !.difficulty = new_difficulty]

\* Blockchain::insert: unconditional; the chain assigns the index, and the
\* tip moves only to a strictly longer branch (ties: first seen)
chain_insert(chain, block) ==
    LET parent == block.header.parent
        index  == IF parent \in DOMAIN chain.blocks
                  THEN chain.blocks[parent].index + 1 ELSE 0
        b      == [block EXCEPT !.index = index]
    IN  [chain EXCEPT
            !.blocks = MapInsert(chain.blocks, b.hash, b),
            !.tip = IF index + 1 > chain_length(chain) THEN b.hash ELSE chain.tip]

\* Blockchain::insert_with_check's tests of the block alone (content check
\* switched on)
block_check(block) ==
    /\ \A i \in 1..Len(block.content.trans) : sign_check(block.content.trans[i])
    /\ block.hash = Header_hash(block.header)
    /\ HashLess(block.hash, block.header.difficulty)

\* Blockchain::insert_with_check's tests of the block against the chain
chain_check(chain, block) ==
    /\ block.header.parent \in DOMAIN chain.blocks
    /\ block.hash \notin DOMAIN chain.blocks
    /\ block.header.difficulty = chain.difficulty

(***************************************************************************)
(* miner.rs: control signals, operating states, mining_base                *)
(***************************************************************************)
Lambdas == {0, 1}

Start(lambda) == [sig |-> "Start", lambda |-> lambda]
Exit == [sig |-> "Exit", lambda |-> 0]
PausedSignal == [sig |-> "Paused", lambda |-> 0]

Paused == [tag |-> "Paused", i |-> 0]
Run(i) == [tag |-> "Run", i |-> i]
ShutDown == [tag |-> "ShutDown", i |-> 0]

\* handle_control_signal that drops the interval of Start
handle_control_signalNoLambda(signal) ==
    CASE signal.sig = "Exit"   -> ShutDown
      [] signal.sig = "Start"  -> Run(0)
      [] signal.sig = "Paused" -> Paused

\* handle_control_signal that takes Exit for Paused
handle_control_signalExitPauses(signal) ==
    CASE signal.sig = "Exit"   -> Paused
      [] signal.sig = "Start"  -> Run(signal.lambda)
      [] signal.sig = "Paused" -> Paused

\* Context::handle_control_signal: the operating state after the signal
handle_control_signal(signal) ==
    CASE signal.sig = "Exit"   -> ShutDown
      [] signal.sig = "Start"  -> Run(signal.lambda)
      [] signal.sig = "Paused" -> Paused

RECURSIVE mining_base_from(_, _, _)
\* mining_base with k iterations of its loop still to run: the result and the
\* header it leaves
mining_base_from(header, difficulty, k) ==
    IF k = 0 THEN [found |-> FALSE, header |-> header]
    ELSE IF HashLess(Header_hash(header), difficulty)
         THEN [found |-> TRUE, header |-> header]
         ELSE mining_base_from(change_nonce(header), difficulty, k - 1)

\* mining_base whose loop runs one iteration short
mining_baseShort(header, difficulty) ==
    mining_base_from(header, difficulty, MINING_STEP - 1)

\* mining_base(&mut header, difficulty)
mining_base(header, difficulty) == mining_base_from(header, difficulty, MINING_STEP)

\* tests::gen_mined_block, for a given content and timestamp
gen_mined_block(parent_hash, difficulty, content, ts) ==
    LET header == Header_new(parent_hash, U32OfNat(0), ts, difficulty, merkle_root(content))
        r == mining_base(header, difficulty)
    IN  [mined |-> r.found, block |-> Block_new(r.header, content)]

\* the timestamps of the peers' blocks
PeerTimes == {2}

\* blocks of one transaction that peers can have mined on the common genesis
\* at the network's difficulty
PeerBlocks ==
    {g.block : g \in {m \in {gen_mined_block(ZeroHash, gen_difficulty_array(EASIEST_DIF),
                                             Content_new_with_trans(<< tran >>), ts) :
                                tran \in ValidTx, ts \in PeerTimes} :
                        m.mined /\ block_check(m.block)}}

(***************************************************************************)
(* State                                                                   *)
(***************************************************************************)
VARIABLES
    control_chan,     \* signals sent and not yet received, oldest first
    handle,           \* the owner's Handle: "alive", "dropped", "panicked"
    operating_state,  \* Context.operating_state
    nonce,            \* Context.nonce
    mined_num,        \* Context.mined_num
    pc,               \* where the miner thread stands
    local,            \* the locals of mining() and found()
    blockchain,       \* Arc<Mutex<Blockchain>>: the value
    mempool,          \* Arc<Mutex<MemPool>>: the value
    chain_lock,       \* holder of the blockchain mutex
    pool_lock,        \* holder of the mempool mutex
    server,           \* messages handed to server.broadcast, oldest first
    worker,           \* blocks the network worker inserted and has not yet
                      \* cleared from the mempool
    call,             \* history: state at the call of mining() in progress
    last_add,         \* history: the latest add_with_check, before and after
    last_found,       \* history: hashes removed by the latest found, until
                      \* another thread takes the mempool lock
    exit_sent,        \* history: the first Exit sent to a running miner
    count,            \* sends, bursts, pool additions and peer blocks so far
    net               \* the nodes of a network and the messages between them

vars == << control_chan, handle, operating_state, nonce, mined_num, pc, local,
           blockchain, mempool, chain_lock, pool_lock, server, worker,
           call, last_add, last_found, exit_sent, count, limit, net >>

minerVars == << operating_state, nonce, mined_num, pc, local >>

NoLocal ==
    [tip |-> << >>, difficulty |-> << >>, content |-> [trans |-> << >>],
     header |-> << >>, probes |-> 0, block |-> << >>, hash_of_trans |-> << >>,
     bingo |-> FALSE,
     probed |-> << >>,    \* history: the nonce of the last header hashed
     pool |-> << >>]      \* history: the mempool create_content read

NoCall == [active |-> FALSE]

NoAdd == [done |-> FALSE]

NoExit == [sent |-> FALSE, ahead |-> 0, begun |-> 0]

\* a node on its own: no network
NoNet == [nodes |-> {}]

\* cursors a miner is left with by earlier bursts: fresh, about to carry into
\* the upper half, about to wrap
NonceStarts == {U32OfNat(0), U32(0, Half - 2), U32(Half - 1, Half - 2)}

DifficultyBits == {0, EASIEST_DIF, 8 * HashLen}

Times == {1}

InitCommon ==
    /\ control_chan = << >>
    /\ operating_state = Paused
    /\ mined_num = 0
    /\ local = NoLocal
    /\ mempool = MemPool_new
    /\ chain_lock = "free"
    /\ pool_lock = "free"
    /\ server = << >>
    /\ worker = << >>
    /\ call = NoCall
    /\ last_add = NoAdd
    /\ last_found = {}
    /\ exit_sent = NoExit
    /\ count = [sends |-> 0, bursts |-> 0, adds |-> 0, peers |-> 0]

\* miner::new and new_server_env, then Context::start
Init ==
    /\ InitCommon
    /\ net = NoNet
    /\ handle = "alive"
    /\ nonce = U32OfNat(0)
    /\ pc = "loop"
    /\ blockchain = Blockchain_new(EASIEST_DIF)
    /\ limit = [sends |-> 1, bursts |-> MaxBursts, adds |-> MaxAdds,
                peers |-> MaxPeerBlocks, txs |-> Transactions,
                blocks |-> PeerBlocks,
                block_size |-> BLOCK_SIZE_LIMIT, capped |-> TRUE]

(***************************************************************************)
(* The owner of the Handle                                                 *)
(***************************************************************************)
ReceiverGone == pc \in {"done", "panicked"}

\* Sender::send(signal).unwrap()
Send(signal) ==
    /\ handle = "alive"
    /\ count.sends < limit.sends
    /\ count' = [count EXCEPT !.sends = @ + 1]
    /\ IF ReceiverGone
       THEN /\ handle' = "panicked"
            /\ UNCHANGED << control_chan, exit_sent >>
       ELSE /\ handle' = handle
            /\ control_chan' = Append(control_chan, signal)
            /\ exit_sent' =
                 IF signal = Exit /\ ~exit_sent.sent /\ operating_state.tag = "Run"
                 THEN [sent |-> TRUE, ahead |-> Len(control_chan), begun |-> 0]
                 ELSE exit_sent
    /\ UNCHANGED << minerVars, blockchain, mempool, chain_lock, pool_lock,
                    server, worker, call, last_add, last_found, limit, net >>

Handle_exit == Send(Exit)

Handle_start == \E lambda \in Lambdas : Send(Start(lambda))

Handle_stop == Send(Exit)

Handle_pause == Send(PausedSignal)

\* the last Handle goes out of scope: the channel is disconnected
Handle_drop ==
    /\ handle = "alive"
    /\ count.sends < limit.sends
    /\ count' = [count EXCEPT !.sends = @ + 1]
    /\ handle' = "dropped"
    /\ UNCHANGED << control_chan, minerVars, blockchain, mempool, chain_lock,
                    pool_lock, server, worker, call, last_add, last_found,
                    exit_sent, limit, net >>

(***************************************************************************)
(* The miner thread: Context::miner_loop                                   *)
(***************************************************************************)
\* the channel has no sender left
Disconnected == handle # "alive"

othersOfLoop == << nonce, mined_num, local, blockchain, mempool, chain_lock,
                   pool_lock, server, worker, call, last_add, last_found,
                   exit_sent, count, limit, net, handle >>

\* AfterDispatch without the check for ShutDown
AfterDispatchNoCheck(state) == "mining"

\* where the loop goes after the dispatch of a running miner: the check for
\* ShutDown, then the call of mining()
AfterDispatch(state) == IF state = ShutDown THEN "done" ELSE "mining"

\* LoopPaused without its continue: the iteration goes on to the burst
LoopPausedNoContinue ==
    /\ pc = "loop"
    /\ operating_state = Paused
    /\ \/ /\ control_chan # << >>
          /\ operating_state' = handle_control_signal(Head(control_chan))
          /\ control_chan' = Tail(control_chan)
          /\ pc' = AfterDispatch(operating_state')
       \/ /\ control_chan = << >>
          /\ Disconnected
          /\ pc' = "panicked"
          /\ UNCHANGED << operating_state, control_chan >>
    /\ UNCHANGED othersOfLoop

\* OperatingState::Paused: control_chan.recv().unwrap(), handle, continue
LoopPaused ==
    /\ pc = "loop"
    /\ operating_state = Paused
    /\ \/ /\ control_chan # << >>
          /\ operating_state' = handle_control_signal(Head(control_chan))
          /\ control_chan' = Tail(control_chan)
          /\ pc' = "loop"
       \/ /\ control_chan = << >>
          /\ Disconnected
          /\ pc' = "panicked"
          /\ UNCHANGED << operating_state, control_chan >>
    /\ UNCHANGED othersOfLoop

\* OperatingState::ShutDown: return
LoopShutDown ==
    /\ pc = "loop"
    /\ operating_state = ShutDown
    /\ pc' = "done"
    /\ UNCHANGED << operating_state, control_chan >>
    /\ UNCHANGED othersOfLoop

\* LoopRun that takes a disconnected channel for an empty one
LoopRunIgnoreDisconnected ==
    /\ pc = "loop"
    /\ operating_state.tag = "Run"
    /\ \/ /\ control_chan # << >>
          /\ operating_state' = handle_control_signal(Head(control_chan))
          /\ control_chan' = Tail(control_chan)
          /\ pc' = AfterDispatch(operating_state')
       \/ /\ control_chan = << >>
          /\ pc' = AfterDispatch(operating_state)
          /\ UNCHANGED << operating_state, control_chan >>
    /\ UNCHANGED othersOfLoop

\* any other state: control_chan.try_recv(), then the check for ShutDown
LoopRun ==
    /\ pc = "loop"
    /\ operating_state.tag = "Run"
    /\ \/ /\ control_chan # << >>
          /\ operating_state' = handle_control_signal(Head(control_chan))
          /\ control_chan' = Tail(control_chan)
          /\ pc' = AfterDispatch(operating_state')
       \/ /\ control_chan = << >>
          /\ ~Disconnected
          /\ pc' = AfterDispatch(operating_state)
          /\ UNCHANGED << operating_state, control_chan >>
       \/ /\ control_chan = << >>
          /\ Disconnected
          /\ pc' = "panicked"
          /\ UNCHANGED << operating_state, control_chan >>
    /\ UNCHANGED othersOfLoop

\* after mining(): sleep when still Run(i) with i # 0
AfterMining ==
    /\ pc = "returned"
    /\ pc' = IF operating_state.tag = "Run" /\ operating_state.i # 0
             THEN "sleep" ELSE "loop"
    /\ local' = NoLocal
    /\ call' = NoCall
    /\ UNCHANGED << control_chan, handle, operating_state, nonce, mined_num,
                    blockchain, mempool, chain_lock, pool_lock, server, worker,
                    last_add, last_found, exit_sent, count, limit, net >>

\* thread::sleep(interval) is over
Wake ==
    /\ pc = "sleep"
    /\ pc' = "loop"
    /\ UNCHANGED << control_chan, handle, operating_state, nonce, mined_num,
                    local, blockchain, mempool, chain_lock, pool_lock, server,
                    worker, call, last_add, last_found, exit_sent, count, limit, net >>

(***************************************************************************)
(* Context::mining                                                         *)
(***************************************************************************)
\* let blockchain = self.blockchain.lock().unwrap()
MiningLockChain ==
    /\ pc = "mining"
    /\ limit.capped => count.bursts < limit.bursts
    /\ chain_lock = "free"
    /\ chain_lock' = "miner"
    /\ pc' = "read_chain"
    /\ count' = IF limit.capped THEN [count EXCEPT !.bursts = @ + 1] ELSE count
    /\ exit_sent' = IF exit_sent.sent
                    THEN [exit_sent EXCEPT !.begun = @ + 1] ELSE exit_sent
    /\ UNCHANGED << control_chan, handle, operating_state, nonce, mined_num,
                    local, blockchain, mempool, pool_lock, server, worker,
                    call, last_add, last_found, limit, net >>

\* MiningReadChain without drop(blockchain): the guard lives on
MiningReadChainKeepLock ==
    /\ pc = "read_chain"
    /\ local' = [local EXCEPT !.tip = chain_tip(blockchain),
                              !.difficulty = chain_difficulty(blockchain)]
    /\ chain_lock' = chain_lock
    /\ pc' = "lock_pool"
    /\ UNCHANGED << control_chan, handle, operating_state, nonce, mined_num,
                    blockchain, mempool, pool_lock, server, worker, call,
                    last_add, last_found, exit_sent, count, limit, net >>

\* tip, difficulty, drop(blockchain)
MiningReadChain ==
    /\ pc = "read_chain"
    /\ local' = [local EXCEPT !.tip = chain_tip(blockchain),
                              !.difficulty = chain_difficulty(blockchain)]
    /\ chain_lock' = "free"
    /\ pc' = "lock_pool"
    /\ UNCHANGED << control_chan, handle, operating_state, nonce, mined_num,
                    blockchain, mempool, pool_lock, server, worker, call,
                    last_add, last_found, exit_sent, count, limit, net >>

\* let mempool = self.mempool.lock().unwrap()
MiningLockPool ==
    /\ pc = "lock_pool"
    /\ pool_lock = "free"
    /\ pool_lock' = "miner"
    /\ pc' = "content"
    /\ UNCHANGED << control_chan, handle, operating_state, nonce, mined_num,
                    local, blockchain, mempool, chain_lock, server, worker,
                    call, last_add, last_found, exit_sent, count, limit, net >>

\* MiningEmpty without the early return: a block is built from no transaction
MiningEmptyFallsThrough ==
    /\ pc = "content"
    /\ size(mempool) = 0
    /\ \E ts \in Times :
          local' = [local EXCEPT
                      !.content = Content_new_with_trans(<< >>),
                      !.header = Header_new(local.tip, nonce, ts, local.difficulty,
                                            merkle_root(Content_new_with_trans(<< >>))),
                      !.probes = 0]
    /\ pool_lock' = "free"
    /\ pc' = "mining_base"
    /\ UNCHANGED << control_chan, handle, operating_state, nonce, mined_num,
                    blockchain, mempool, chain_lock, server, worker, call,
                    last_add, last_found, exit_sent, count, limit, net >>

\* if mempool.size() == 0 { return false; }
MiningEmpty ==
    /\ pc = "content"
    /\ size(mempool) = 0
    /\ local' = [local EXCEPT !.bingo = FALSE]
    /\ pool_lock' = "free"
    /\ pc' = "returned"
    /\ UNCHANGED << control_chan, handle, operating_state, nonce, mined_num,
                    blockchain, mempool, chain_lock, server, worker, call,
                    last_add, last_found, exit_sent, count, limit, net >>

\* create_content, drop(mempool), Header::new
MiningContent ==
    /\ pc = "content"
    /\ size(mempool) # 0
    /\ \E content \in create_content(mempool), ts \in Times :
          local' = [local EXCEPT
                      !.content = content,
                      !.header = Header_new(local.tip, nonce, ts, local.difficulty,
                                            merkle_root(content)),
                      !.probes = 0,
                      !.pool = mempool]
    /\ pool_lock' = "free"
    /\ pc' = "mining_base"
    /\ UNCHANGED << control_chan, handle, operating_state, nonce, mined_num,
                    blockchain, mempool, chain_lock, server, worker, call,
                    last_add, last_found, exit_sent, count, limit, net >>

\* MiningBaseProbe that takes the first header without comparing its hash
MiningBaseProbeNoCompare ==
    /\ pc = "mining_base"
    /\ local.probes < MINING_STEP
    /\ local' = [local EXCEPT
                    !.block = Block_new(local.header, local.content),
                    !.hash_of_trans = get_trans_hashes(local.content),
                    !.probed = local.header.nonce]
    /\ pc' = "found_lock_chain"
    /\ UNCHANGED << control_chan, handle, operating_state, nonce, mined_num,
                    blockchain, mempool, chain_lock, pool_lock, server, worker,
                    call, last_add, last_found, exit_sent, count, limit, net >>

\* one iteration of mining_base's loop; on success Block::new and the entry
\* of found
MiningBaseProbe ==
    /\ pc = "mining_base"
    /\ local.probes < MINING_STEP
    /\ IF HashLess(Header_hash(local.header), local.difficulty)
       THEN /\ local' = [local EXCEPT
                           !.block = Block_new(local.header, local.content),
                           !.hash_of_trans = get_trans_hashes(local.content),
                           !.probed = local.header.nonce]
            /\ pc' = "found_lock_chain"
       ELSE /\ local' = [local EXCEPT !.header = change_nonce(local.header),
                                      !.probes = @ + 1,
                                      !.probed = local.header.nonce]
            /\ pc' = "mining_base"
    /\ UNCHANGED << control_chan, handle, operating_state, nonce, mined_num,
                    blockchain, mempool, chain_lock, pool_lock, server, worker,
                    call, last_add, last_found, exit_sent, count, limit, net >>

\* MiningBaseExhausted that leaves the cursor at the last nonce it hashed
MiningBaseExhaustedLastProbed ==
    /\ pc = "mining_base"
    /\ local.probes = MINING_STEP
    /\ nonce' = local.probed
    /\ local' = [local EXCEPT !.bingo = FALSE]
    /\ pc' = "returned"
    /\ UNCHANGED << control_chan, handle, operating_state, mined_num,
                    blockchain, mempool, chain_lock, pool_lock, server, worker,
                    call, last_add, last_found, exit_sent, count, limit, net >>

\* the loop is over: return false; self.nonce = header.nonce
MiningBaseExhausted ==
    /\ pc = "mining_base"
    /\ local.probes = MINING_STEP
    /\ nonce' = local.header.nonce
    /\ local' = [local EXCEPT !.bingo = FALSE]
    /\ pc' = "returned"
    /\ UNCHANGED << control_chan, handle, operating_state, mined_num,
                    blockchain, mempool, chain_lock, pool_lock, server, worker,
                    call, last_add, last_found, exit_sent, count, limit, net >>

(***************************************************************************)
(* Context::found                                                          *)
(***************************************************************************)
FoundLockChain ==
    /\ pc = "found_lock_chain"
    /\ chain_lock = "free"
    /\ chain_lock' = "miner"
    /\ pc' = "found_insert"
    /\ UNCHANGED << control_chan, handle, operating_state, nonce, mined_num,
                    local, blockchain, mempool, pool_lock, server, worker,
                    call, last_add, last_found, exit_sent, count, limit, net >>

\* FoundInsert that releases the chain lock without inserting the block
FoundInsertSkipped ==
    /\ pc = "found_insert"
    /\ chain_lock' = "free"
    /\ pc' = "found_lock_pool"
    /\ UNCHANGED << control_chan, handle, operating_state, nonce, mined_num,
                    local, blockchain, mempool, pool_lock, server, worker, call,
                    last_add, last_found, exit_sent, count, limit, net >>

\* blockchain.insert(&block); drop(blockchain)
FoundInsert ==
    /\ pc = "found_insert"
    /\ blockchain' = chain_insert(blockchain, local.block)
    /\ chain_lock' = "free"
    /\ pc' = "found_lock_pool"
    /\ UNCHANGED << control_chan, handle, operating_state, nonce, mined_num,
                    local, mempool, pool_lock, server, worker, call, last_add,
                    last_found, exit_sent, count, limit, net >>

FoundLockPool ==
    /\ pc = "found_lock_pool"
    /\ pool_lock = "free"
    /\ pool_lock' = "miner"
    /\ pc' = "found_remove"
    /\ UNCHANGED << control_chan, handle, operating_state, nonce, mined_num,
                    local, blockchain, mempool, chain_lock, server, worker,
                    call, last_add, last_found, exit_sent, count, limit, net >>

\* FoundRemove that empties the mempool
FoundRemoveAll ==
    /\ pc = "found_remove"
    /\ mempool' = MemPool_new
    /\ last_found' = {tx_hash(local.block.content.trans[i]) :
                          i \in 1..Len(local.block.content.trans)}
    /\ pc' = "found_count"
    /\ UNCHANGED << control_chan, handle, operating_state, nonce, mined_num,
                    local, blockchain, chain_lock, pool_lock, server, worker,
                    call, last_add, exit_sent, count, limit, net >>

\* mempool.remove_trans(&hash_of_trans)
FoundRemove ==
    /\ pc = "found_remove"
    /\ mempool' = remove_trans(mempool, local.hash_of_trans)
    /\ last_found' = {tx_hash(local.block.content.trans[i]) :
                          i \in 1..Len(local.block.content.trans)}
    /\ pc' = "found_count"
    /\ UNCHANGED << control_chan, handle, operating_state, nonce, mined_num,
                    local, blockchain, chain_lock, pool_lock, server, worker,
                    call, last_add, exit_sent, count, limit, net >>

\* self.mined_num += 1
FoundCount ==
    /\ pc = "found_count"
    /\ mined_num' = mined_num + 1
    /\ pc' = "found_broadcast"
    /\ UNCHANGED << control_chan, handle, operating_state, nonce, local,
                    blockchain, mempool, chain_lock, pool_lock, server, worker,
                    call, last_add, last_found, exit_sent, count, limit, net >>

NewBlockHashes(vec) == [msg |-> "NewBlockHashes", hashes |-> vec]

\* self.server.broadcast(Message::NewBlockHashes(vec![block.hash]))
FoundBroadcast ==
    /\ pc = "found_broadcast"
    /\ server' = Append(server, NewBlockHashes(<< local.block.hash >>))
    /\ pc' = "found_return"
    /\ UNCHANGED << control_chan, handle, operating_state, nonce, mined_num,
                    local, blockchain, mempool, chain_lock, pool_lock, worker,
                    call, last_add, last_found, exit_sent, count, limit, net >>

\* FoundReturn that leaves the cursor at the winning nonce
FoundReturnKeepNonce ==
    /\ pc = "found_return"
    /\ pool_lock' = "free"
    /\ nonce' = local.header.nonce
    /\ local' = [local EXCEPT !.bingo = TRUE]
    /\ pc' = "returned"
    /\ UNCHANGED << control_chan, handle, operating_state, mined_num,
                    blockchain, mempool, chain_lock, server, worker, call,
                    last_add, last_found, exit_sent, count, limit, net >>

\* found returns (the mempool guard goes out of scope); bingo = true;
\* self.nonce = 0
FoundReturn ==
    /\ pc = "found_return"
    /\ pool_lock' = "free"
    /\ nonce' = U32OfNat(0)
    /\ local' = [local EXCEPT !.bingo = TRUE]
    /\ pc' = "returned"
    /\ UNCHANGED << control_chan, handle, operating_state, mined_num,
                    blockchain, mempool, chain_lock, server, worker, call,
                    last_add, last_found, exit_sent, count, limit, net >>

Mining ==
    \/ MiningLockChain \/ MiningReadChain \/ MiningLockPool \/ MiningEmpty
    \/ MiningContent \/ MiningBaseProbe \/ MiningBaseExhausted
    \/ FoundLockChain \/ FoundInsert \/ FoundLockPool \/ FoundRemove
    \/ FoundCount \/ FoundBroadcast \/ FoundReturn

(***************************************************************************)
(* The other threads of the node                                           *)
(***************************************************************************)
\* transaction generator (or a network worker relaying a transaction):
\* mempool.lock(), add_with_check, unlock
GeneratorAdd ==
    /\ pool_lock = "free"
    /\ count.adds < limit.adds
    /\ count' = [count EXCEPT !.adds = @ + 1]
    /\ \E tran \in limit.txs :
          mempool' = add_with_check(mempool, tran).pool
    /\ last_found' = {}
    /\ UNCHANGED << control_chan, handle, minerVars, blockchain, chain_lock,
                    pool_lock, server, worker, call, last_add, exit_sent, limit, net >>

\* network worker, new block with a known parent: blockchain.lock(),
\* insert_with_check (PeerBlocks holds the blocks that pass block_check), unlock
WorkerInsert ==
    /\ chain_lock = "free"
    /\ count.peers < limit.peers
    /\ \E block \in limit.blocks :
          /\ block.content.trans[1] \in limit.txs
          /\ chain_check(blockchain, block)
          /\ blockchain' = chain_insert(blockchain, block)
          /\ worker' = Append(worker, get_trans_hashes(block.content))
    /\ count' = [count EXCEPT !.peers = @ + 1]
    /\ UNCHANGED << control_chan, handle, minerVars, mempool, chain_lock,
                    pool_lock, server, call, last_add, last_found, exit_sent, limit, net >>

\* network worker, after a successful insert: mempool.lock(), remove_trans,
\* unlock
WorkerRemove ==
    /\ pool_lock = "free"
    /\ worker # << >>
    /\ mempool' = remove_trans(mempool, Head(worker))
    /\ worker' = Tail(worker)
    /\ last_found' = {}
    /\ UNCHANGED << control_chan, handle, minerVars, blockchain, chain_lock,
                    pool_lock, server, call, last_add, exit_sent, count, limit, net >>

Next ==
    \/ Handle_exit \/ Handle_start \/ Handle_stop \/ Handle_pause \/ Handle_drop
    \/ LoopPaused \/ LoopShutDown \/ LoopRun \/ AfterMining \/ Wake
    \/ Mining
    \/ GeneratorAdd \/ WorkerInsert \/ WorkerRemove

Spec == Init /\ [][Next]_vars

\* the same node, with an owner who uses the Handle more and a quieter network
InitControl ==
    /\ InitCommon
    /\ net = NoNet
    /\ handle = "alive"
    /\ nonce = U32OfNat(0)
    /\ pc = "loop"
    /\ blockchain = Blockchain_new(EASIEST_DIF)
    /\ limit = [sends |-> MaxSends, bursts |-> MaxBursts, adds |-> 1, peers |-> 1,
                txs |-> {Tx(1)}, blocks |-> PeerBlocks,
                block_size |-> BLOCK_SIZE_LIMIT, capped |-> TRUE]

SpecControl == InitControl /\ [][Next]_vars

\* the same node once more, for what the miner does in the end: the number of
\* bursts is not capped (the bursts are not counted), one transaction is ever
\* added and no block arrives, so that the miner runs on for ever over
\* finitely many states
InitLive ==
    /\ InitCommon
    /\ net = NoNet
    /\ handle = "alive"
    /\ nonce = U32OfNat(0)
    /\ pc = "loop"
    /\ blockchain = Blockchain_new(EASIEST_DIF)
    /\ limit = [sends |-> MaxSends, bursts |-> 0, adds |-> 1, peers |-> 0,
                txs |-> {Tx(1)}, blocks |-> {},
                block_size |-> BLOCK_SIZE_LIMIT, capped |-> FALSE]

\* the steps of the miner thread
MinerThread ==
    LoopPaused \/ LoopShutDown \/ LoopRun \/ AfterMining \/ Wake \/ Mining

NextLive ==
    \/ Handle_exit \/ Handle_start \/ Handle_stop \/ Handle_pause \/ Handle_drop
    \/ MinerThread
    \/ GeneratorAdd

\* the scheduler lets the miner thread run whenever it can take a step; the
\* generator holds the mempool mutex for one step only, so that a mutex the
\* miner waits for is free whenever the miner is not its holder
SpecLive == InitLive /\ [][NextLive]_vars /\ WF_vars(MinerThread)

(***************************************************************************)
(* The test harness: tests::test_miner and the tests of mempool.rs         *)
(***************************************************************************)
\* new_server_env, whose Handle is dropped on return; the miner is not
\* started, its methods are called directly
InitTest ==
    /\ InitCommon
    /\ net = NoNet
    /\ handle = "dropped"
    /\ nonce \in NonceStarts
    /\ pc = "test"
    /\ blockchain = Blockchain_new(EASIEST_DIF)
    /\ limit = [sends |-> 0, bursts |-> TestBursts, adds |-> 0, peers |-> 0,
                txs |-> Transactions, blocks |-> {},
                block_size |-> BLOCK_SIZE_LIMIT, capped |-> TRUE]

othersOfTest == << control_chan, handle, operating_state, nonce, mined_num,
                   local, chain_lock, pool_lock, server, worker, last_found,
                   exit_sent, count, limit, net >>

\* miner.change_difficulty(&gen_difficulty_array(bits).into())
TestChangeDifficulty ==
    /\ pc = "test"
    /\ \E bits \in DifficultyBits :
          blockchain' = change_difficulty(blockchain, gen_difficulty_array(bits))
    /\ last_add' = NoAdd
    /\ UNCHANGED << pc, mempool, call >>
    /\ UNCHANGED othersOfTest

\* pool.add_with_check(&new_t)
TestAdd ==
    /\ pc = "test"
    /\ \E tran \in Transactions :
          LET r == add_with_check(mempool, tran)
          IN  /\ mempool' = r.pool
              /\ last_add' = [done |-> TRUE, before |-> mempool, tran |-> tran,
                              ok |-> r.ok]
    /\ UNCHANGED << pc, blockchain, call >>
    /\ UNCHANGED othersOfTest

\* miner.mining()
TestMining ==
    /\ pc = "test"
    /\ count.bursts < limit.bursts
    /\ pc' = "mining"
    /\ call' = [active |-> TRUE, nonce |-> nonce, mined_num |-> mined_num,
                blockchain |-> blockchain, mempool |-> mempool, server |-> server]
    /\ last_add' = NoAdd
    /\ UNCHANGED << blockchain, mempool >>
    /\ UNCHANGED othersOfTest

\* back in the test, after mining() returned
TestReturn ==
    /\ pc = "returned"
    /\ pc' = "test"
    /\ local' = NoLocal
    /\ call' = NoCall
    /\ UNCHANGED << control_chan, handle, operating_state, nonce, mined_num,
                    blockchain, mempool, chain_lock, pool_lock, server, worker,
                    last_add, last_found, exit_sent, count, limit, net >>

NextTest ==
    \/ TestChangeDifficulty \/ TestAdd \/ TestMining \/ TestReturn
    \/ Mining

SpecTest == InitTest /\ [][NextTest]_vars

(***************************************************************************)
(* The mempool on its own: the constructors and methods of mempool.rs      *)
(* called in any order, as the tests of mempool.rs call them               *)
(***************************************************************************)
\* the vectors a caller passes to new_with_trans and remove_trans hold at
\* most one entry more than the pool's capacity
MaxVec == POOL_SIZE_LIMIT + 1

\* Vec<SignedTransaction>
TxVecs == UNION {[1..n -> limit.txs] : n \in 0..MaxVec}

\* Vec<H256>: hashes of transactions, in the pool or not, repeated or not
HashVecs == UNION {[1..n -> {tx_hash(t) : t \in limit.txs}] : n \in 0..MaxVec}

\* the transactions the callers hold: two signed ones and an unsigned one
PoolTxs == {Tx(0), Tx(1), Tx(2)}

\* let mut mempool = MemPool::new();
InitPool ==
    /\ InitCommon
    /\ net = NoNet
    /\ handle = "dropped"
    /\ nonce = U32OfNat(0)
    /\ pc = "pool"
    /\ blockchain = Blockchain_new(EASIEST_DIF)
    /\ limit = [sends |-> 0, bursts |-> 0, adds |-> 0, peers |-> 0,
                txs |-> PoolTxs, blocks |-> {},
                block_size |-> PoolBlockSize, capped |-> TRUE]

othersOfPool == << control_chan, handle, operating_state, nonce, mined_num,
                   pc, local, blockchain, chain_lock, pool_lock, server,
                   worker, last_found, exit_sent, count, limit, net >>

\* mempool = MemPool::new()
PoolNew ==
    /\ pc = "pool"
    /\ mempool' = MemPool_new
    /\ call' = [active |-> TRUE, op |-> "new"]
    /\ last_add' = NoAdd
    /\ UNCHANGED othersOfPool

\* mempool = MemPool::new_with_trans(&trans)
PoolNewWithTrans ==
    /\ pc = "pool"
    /\ \E trans \in TxVecs :
          /\ mempool' = new_with_trans(trans)
          /\ call' = [active |-> TRUE, op |-> "new_with_trans", trans |-> trans]
    /\ last_add' = NoAdd
    /\ UNCHANGED othersOfPool

\* mempool.add_with_check(&tran)
PoolAdd ==
    /\ pc = "pool"
    /\ \E tran \in limit.txs :
          LET r == add_with_check(mempool, tran)
          IN  /\ mempool' = r.pool
              /\ last_add' = [done |-> TRUE, before |-> mempool, tran |-> tran,
                              ok |-> r.ok]
    /\ call' = [active |-> TRUE, op |-> "add_with_check"]
    /\ UNCHANGED othersOfPool

\* mempool.remove_trans(&hashes)
PoolRemove ==
    /\ pc = "pool"
    /\ \E hashes \in HashVecs :
          /\ mempool' = remove_trans(mempool, hashes)
          /\ call' = [active |-> TRUE, op |-> "remove_trans",
                      mempool |-> mempool, hashes |-> hashes]
    /\ last_add' = NoAdd
    /\ UNCHANGED othersOfPool

\* let content = mempool.create_content();
PoolCreateContent ==
    /\ pc = "pool"
    /\ \E content \in create_content(mempool) :
          call' = [active |-> TRUE, op |-> "create_content",
                   mempool |-> mempool, content |-> content]
    /\ last_add' = NoAdd
    /\ UNCHANGED mempool
    /\ UNCHANGED othersOfPool

NextPool ==
    \/ PoolNew \/ PoolNewWithTrans \/ PoolAdd \/ PoolRemove
    \/ PoolCreateContent

SpecPool == InitPool /\ [][NextPool]_vars

(***************************************************************************)
(* Three nodes in a line, A - B - C, and the gossip of new blocks between  *)
(* them: tests::test_block_relay and tests::test_mempool_clear.  The       *)
(* network worker and the server are consumed interfaces; the exchange     *)
(* NewBlockHashes -> GetBlocks -> Blocks is the one their callers rely on. *)
(***************************************************************************)
Nodes == {1, 2, 3}

\* connect_peers(&server_2, [p2p_addr_1]); connect_peers(&server_3,
\* [p2p_addr_2]): connections carry messages both ways
Peers(n) == {m \in Nodes : m = n + 1 \/ n = m + 1}

GetBlocks(vec) == [msg |-> "GetBlocks", hashes |-> vec]

Blocks(vec) == [msg |-> "Blocks", blocks |-> vec]

\* a message on the connection between two nodes
Sent(from, to, message) == [from |-> from, to |-> to, message |-> message]

\* server.broadcast(message) on node n: a copy to every connected peer
broadcast(n, message) == {Sent(n, m, message) : m \in Peers(n)}

\* helper::generate_header
generate_header(parent, content, first_nonce, difficulty, ts) ==
    Header_new(parent, first_nonce, ts, difficulty, merkle_root(content))

\* Blockchain::insert_with_check: the result and the chain afterwards
insert_with_check(chain, block) ==
    IF block_check(block) /\ chain_check(chain, block)
    THEN [ok |-> TRUE, chain |-> chain_insert(chain, block)]
    ELSE [ok |-> FALSE, chain |-> chain]

\* found that leaves the count of mined blocks alone
foundNoCount(node, block) ==
    LET hash_of_trans == get_trans_hashes(block.content)
    IN  [node EXCEPT !.blockchain = chain_insert(@, block),
                     !.mempool = remove_trans(@, hash_of_trans)]

\* Context::found on a node (blockchain, mempool, mined_num), start to end;
\* the broadcast is the caller's
found(node, block) ==
    LET hash_of_trans == get_trans_hashes(block.content)
    IN  [node EXCEPT !.blockchain = chain_insert(@, block),
                     !.mempool = remove_trans(@, hash_of_trans),
                     !.mined_num = @ + 1]

\* worker_blocks that leaves the mempool alone
RECURSIVE worker_blocksKeepPool(_, _, _, _)
worker_blocksKeepPool(node, blocks, i, new_hashes) ==
    IF i > Len(blocks) THEN [node |-> node, new_hashes |-> new_hashes]
    ELSE LET r == insert_with_check(node.blockchain, blocks[i])
         IN  IF r.ok
             THEN worker_blocksKeepPool(
                      [node EXCEPT !.blockchain = r.chain],
                      blocks, i + 1, Append(new_hashes, blocks[i].hash))
             ELSE worker_blocksKeepPool(node, blocks, i + 1, new_hashes)

\* network worker, Message::Blocks: insert_with_check on each block and, on
\* success, remove_trans with the block's transaction hashes; the node
\* afterwards and the hashes of the blocks it inserted
RECURSIVE worker_blocks(_, _, _, _)
worker_blocks(node, blocks, i, new_hashes) ==
    IF i > Len(blocks) THEN [node |-> node, new_hashes |-> new_hashes]
    ELSE LET r == insert_with_check(node.blockchain, blocks[i])
         IN  IF r.ok
             THEN worker_blocks(
                      [node EXCEPT
                          !.blockchain = r.chain,
                          !.mempool = remove_trans(@, get_trans_hashes(blocks[i].content))],
                      blocks, i + 1, Append(new_hashes, blocks[i].hash))
             ELSE worker_blocks(node, blocks, i + 1, new_hashes)

\* a worker that keeps the blocks it inserted to itself
worker_announceNothing(n, new_hashes) == {}

\* network worker: the blocks it inserted are announced to the node's peers
worker_announce(n, new_hashes) ==
    IF new_hashes = << >> THEN {}
    ELSE broadcast(n, NewBlockHashes(new_hashes))

\* the pools of test_mempool_clear: empty, or holding every transaction of
\* the run
NetPools ==
    {MemPool_new,
     add_with_check(add_with_check(MemPool_new, Tx(1)).pool, Tx(2)).pool}

NoCommit == [done |-> FALSE]

\* new_server_env three times, connect_peers, and the pools filled
InitNet ==
    /\ InitCommon
    /\ handle = "dropped"
    /\ nonce = U32OfNat(0)
    /\ pc = "net"
    /\ blockchain = Blockchain_new(EASIEST_DIF)
    /\ limit = [sends |-> 0, bursts |-> 0, adds |-> 0, peers |-> 0,
                txs |-> {Tx(1), Tx(2)}, blocks |-> {},
                block_size |-> BLOCK_SIZE_LIMIT, capped |-> TRUE, commits |-> MaxCommits]
    /\ \E pool \in NetPools :
          LET pools == [n \in Nodes |-> pool] IN
          net = [nodes |-> Nodes,
                 node |-> [n \in Nodes |->
                             [blockchain |-> Blockchain_new(EASIEST_DIF),
                              mempool |-> pools[n], mined_num |-> 0]],
                 msgs |-> {},
                 start |-> pools,
                 commits |-> 0,
                 by |-> [n \in Nodes |-> {}],
                 own |-> [n \in Nodes |-> {}],
                 serial |-> TRUE,
                 last |-> NoCommit]

othersOfNet == << control_chan, handle, operating_state, nonce, mined_num, pc,
                  local, blockchain, mempool, chain_lock, pool_lock, server,
                  worker, call, last_add, last_found, exit_sent, count, limit >>

\* no message is on its way
Settled == net.msgs = {}

\* every node has the same tip
CommonTip ==
    /\ \A n, m \in Nodes :
          chain_tip(net.node[n].blockchain) = chain_tip(net.node[m].blockchain)

\* the history of a commit on node n
Commit(n, block, by_found) ==
    [done |-> TRUE, node |-> n, block |-> block, found |-> by_found,
     common |-> CommonTip,
     length |-> chain_length(net.node[n].blockchain)]

\* the timestamps of the blocks the tests build
NetTimes == {2, 3}

\* let new_block = gen_mined_block(&chain.tip(), &difficulty);
\* miner_ctx.found(new_block); the tests sleep until the gossip of the block
\* before has settled
NetFound(n) ==
    /\ pc = "net"
    /\ Settled
    /\ net.commits < limit.commits
    /\ \E tran \in limit.txs, ts \in NetTimes :
          LET chain == net.node[n].blockchain
              g == gen_mined_block(chain_tip(chain), chain_difficulty(chain),
                                   Content_new_with_trans(<< tran >>), ts)
          IN  /\ g.mined
              /\ net' = [net EXCEPT
                           !.node[n] = found(@, g.block),
                           !.msgs = @ \cup broadcast(n, NewBlockHashes(<< g.block.hash >>)),
                           !.commits = @ + 1,
                           !.by[n] = @ \cup {g.block.hash},
                           !.own[n] = @ \cup {g.block.hash},
                           !.serial = @ /\ CommonTip,
                           !.last = Commit(n, g.block, TRUE)]
    /\ UNCHANGED othersOfNet

\* let header = generate_header(&chain.tip(), &content, 0, &difficulty);
\* chain.insert(&Block::new(header, content));
\* server.broadcast(Message::NewBlockHashes(vec![new_block.hash()]))
NetInsert(n) ==
    /\ pc = "net"
    /\ Settled
    /\ net.commits < limit.commits
    /\ \E ts \in NetTimes :
          LET chain == net.node[n].blockchain
              content == Content_new_with_trans(<< Tx(1), Tx(2) >>)
              header == generate_header(chain_tip(chain), content, U32OfNat(0),
                                        chain_difficulty(chain), ts)
              block == Block_new(header, content)
          IN  /\ block.hash \notin DOMAIN chain.blocks
              /\ net' = [net EXCEPT
                           !.node[n].blockchain = chain_insert(@, block),
                           !.msgs = @ \cup broadcast(n, NewBlockHashes(<< block.hash >>)),
                           !.commits = @ + 1,
                           !.own[n] = @ \cup {block.hash},
                           !.serial = FALSE,
                           !.last = Commit(n, block, FALSE)]
    /\ UNCHANGED othersOfNet

\* network worker, Message::NewBlockHashes: ask the sender for the blocks
\* this node does not have
WorkerNewBlockHashes ==
    /\ pc = "net"
    /\ \E m \in net.msgs :
          /\ m.message.msg = "NewBlockHashes"
          /\ LET chain == net.node[m.to].blockchain
                 unknown == SelectSeq(m.message.hashes,
                                      LAMBDA h : h \notin DOMAIN chain.blocks)
             IN  net' = [net EXCEPT
                           !.msgs = (@ \ {m}) \cup
                               IF unknown = << >> THEN {}
                               ELSE {Sent(m.to, m.from, GetBlocks(unknown))}]
    /\ UNCHANGED othersOfNet

\* network worker, Message::GetBlocks: answer with the blocks this node has
WorkerGetBlocks ==
    /\ pc = "net"
    /\ \E m \in net.msgs :
          /\ m.message.msg = "GetBlocks"
          /\ LET chain == net.node[m.to].blockchain
                 known == SelectSeq(m.message.hashes,
                                    LAMBDA h : h \in DOMAIN chain.blocks)
                 blocks == [i \in 1..Len(known) |-> chain.blocks[known[i]]]
             IN  net' = [net EXCEPT
                           !.msgs = (@ \ {m}) \cup
                               IF blocks = << >> THEN {}
                               ELSE {Sent(m.to, m.from, Blocks(blocks))}]
    /\ UNCHANGED othersOfNet

\* network worker, Message::Blocks
WorkerBlocks ==
    /\ pc = "net"
    /\ \E m \in net.msgs :
          /\ m.message.msg = "Blocks"
          /\ LET r == worker_blocks(net.node[m.to], m.message.blocks, 1, << >>)
             IN  net' = [net EXCEPT
                           !.node[m.to] = r.node,
                           !.msgs = (@ \ {m}) \cup worker_announce(m.to, r.new_hashes)]
    /\ UNCHANGED othersOfNet

NextNet ==
    \/ \E n \in Nodes : NetFound(n)
    \/ \E n \in Nodes : NetInsert(n)
    \/ WorkerNewBlockHashes \/ WorkerGetBlocks \/ WorkerBlocks

SpecNet == InitNet /\ [][NextNet]_vars

(***************************************************************************)
(* Properties                                                              *)
(***************************************************************************)
\* the steps of mining() and found() after the call and before the return
BurstPcs ==
    {"read_chain", "lock_pool", "content", "mining_base", "found_lock_chain",
     "found_insert", "found_lock_pool", "found_remove", "found_count",
     "found_broadcast", "found_return"}

\* q2 is q with signals appended at most: nothing was received
Extends(q2, q) == Len(q2) >= Len(q) /\ SubSeq(q2, 1, Len(q)) = q

\* C1: once found has removed the transactions of the block it committed, and
\* until another thread takes the mempool lock, no transaction hash of the
\* block is a key of the mempool.
C1_FoundClearsBlockTransactions ==
    /\ \A h \in last_found : h \notin DOMAIN mempool
    /\ pc \in {"found_count", "found_broadcast", "found_return"} =>
          /\ local.block.hash \in DOMAIN blockchain.blocks
          /\ \A i \in 1..Len(local.block.content.trans) :
                ~exist(mempool, tx_hash(local.block.content.trans[i]))

\* C1 witness: found has removed a block's transaction, the lock is free again
\* and the pool still holds another transaction
C1_Witness ==
    /\ last_found # {}
    /\ pc = "returned"
    /\ pool_lock = "free"
    /\ ~empty(mempool)

\* C2: the operating state starts as Paused and changes only by applying the
\* oldest queued control signal (Start(l) -> Run(l), Paused -> Paused,
\* Exit -> ShutDown, whatever the state before); in ShutDown the state stays,
\* the worker only returns, no signal is received and no burst begins.
C2_ControlStateMachine ==
    /\ operating_state = Paused
    /\ [][/\ (operating_state' # operating_state \/ ~Extends(control_chan', control_chan)) =>
                /\ control_chan # << >>
                /\ control_chan' = Tail(control_chan)
                /\ LET s == Head(control_chan)
                   IN  \/ s.sig = "Start" /\ operating_state' = Run(s.lambda)
                       \/ s.sig = "Paused" /\ operating_state' = Paused
                       \/ s.sig = "Exit" /\ operating_state' = ShutDown
          /\ operating_state = ShutDown =>
                /\ operating_state' = ShutDown
                /\ Extends(control_chan', control_chan)
                /\ count'.bursts = count.bursts
                /\ pc \in {"loop", "done"}
                /\ pc' \in {pc, "done"}]_vars

\* C2 witness: the worker has run a burst, has returned in ShutDown and a
\* signal sent after the Exit stays in the queue
C2_Witness ==
    /\ operating_state = ShutDown
    /\ pc = "done"
    /\ control_chan # << >>
    /\ count.bursts > 0

\* C3 as stated: a burst runs only while the operating state is Run(_).
C3_BurstOnlyInRun ==
    pc \in BurstPcs => operating_state.tag = "Run"

\* C3 amended: a call of mining() starts only in a loop iteration that began
\* in Run(_) (the iteration whose poll applies a Paused signal still runs its
\* burst); an iteration that begins in Paused only waits for a signal and
\* starts no burst, and no burst runs in ShutDown.
C3_BurstOnlyFromRunIteration ==
    /\ [](pc \in BurstPcs \cup {"mining"} => operating_state # ShutDown)
    /\ [][/\ (pc # "mining" /\ pc' = "mining") =>
                pc = "loop" /\ operating_state.tag = "Run"
          /\ (pc = "loop" /\ operating_state = Paused) =>
                /\ pc' \in {"loop", "panicked"}
                /\ count'.bursts = count.bursts
                /\ pc' = "loop" /\ control_chan' # control_chan =>
                      \/ Extends(control_chan', control_chan)
                      \/ control_chan' = Tail(control_chan)]_vars

\* C3 witness: a burst under way while the operating state is Paused
C3_Witness ==
    /\ pc \in BurstPcs
    /\ operating_state = Paused

\* C4 as stated: after an Exit sent to a running miner at most one burst
\* begins, whatever the queue holds.
C4_OneBurstAfterExit ==
    exit_sent.sent => exit_sent.begun <= 1

\* C4 amended: after an Exit sent to a running miner, at most one burst plus
\* one for each signal queued ahead of the Exit begins; a burst under way is
\* not interrupted (no signal is received, the state is not changed) and a
\* burst that fails on a non-empty pool has made its MINING_STEP probes.
C4_BurstsAfterExit ==
    /\ [](exit_sent.sent => exit_sent.begun <= 1 + exit_sent.ahead)
    /\ [](pc = "returned" /\ ~local.bingo /\ local.header # << >> =>
             local.probes = MINING_STEP)
    /\ [][(pc \in BurstPcs) =>
             (/\ operating_state' = operating_state
              /\ Extends(control_chan', control_chan)
              /\ pc' \in BurstPcs \cup {"returned"})]_vars

\* C4 witness: the Exit had one signal ahead of it, two bursts began after it
\* was sent and the worker has returned
C4_Witness ==
    /\ exit_sent.sent
    /\ exit_sent.ahead = 1
    /\ exit_sent.begun = 2
    /\ pc = "done"

\* C5: the block built after mining_base succeeded and passed to found has
\* hash = header.hash(), the header being the one that holds the winning
\* nonce.
C5_EmittedBlockHash ==
    pc \in {"found_lock_chain", "found_insert"} =>
        /\ local.block.header = local.header
        /\ local.block.header.nonce = U32Add(nonce, local.probes)
        /\ local.block.hash = Header_hash(local.block.header)

\* C5 witness: a block emitted with a winning nonce that is not the first one
\* probed
C5_Witness ==
    /\ pc = "found_insert"
    /\ local.probes > 0
    /\ local.block.header.nonce # U32OfNat(0)

\* C6: at the all-0xFF target with a non-empty pool a call of mining() returns
\* true on the first nonce probed, whatever the cursor was; afterwards the
\* cursor is 0, the chain is one block longer, no transaction of the new block
\* is in the pool, and the pool is empty when it held at most BLOCK_SIZE_LIMIT
\* transactions.
C6_TrivialMine ==
    (/\ pc = "returned"
     /\ call.active
     /\ call.blockchain.difficulty = [i \in 1..HashLen |-> 255]
     /\ ~empty(call.mempool)) =>
        /\ local.bingo
        /\ local.probes = 0
        /\ local.block.header.nonce = call.nonce
        /\ nonce = U32(0, 0)
        /\ chain_length(blockchain) = chain_length(call.blockchain) + 1
        /\ blockchain.tip = local.block.hash
        /\ \A i \in 1..Len(local.block.content.trans) :
              ~exist(mempool, tx_hash(local.block.content.trans[i]))
        /\ size(call.mempool) <= BLOCK_SIZE_LIMIT => empty(mempool)

\* C6 witness: a trivial mine from a cursor that was not 0, on a pool larger
\* than a block
C6_Witness ==
    /\ pc = "returned"
    /\ call.active
    /\ call.blockchain.difficulty = [i \in 1..HashLen |-> 255]
    /\ size(call.mempool) > BLOCK_SIZE_LIMIT
    /\ call.nonce # U32(0, 0)
    /\ local.bingo

\* C7: at the all-zero target with a non-empty pool a call of mining() returns
\* false, inserts no block, removes nothing from the pool, broadcasts nothing,
\* leaves mined_num, and leaves the cursor at its value before plus
\* MINING_STEP modulo 2^32.
C7_ImpossibleMine ==
    (/\ pc = "returned"
     /\ call.active
     /\ call.blockchain.difficulty = [i \in 1..HashLen |-> 0]
     /\ ~empty(call.mempool)) =>
        /\ ~local.bingo
        /\ blockchain = call.blockchain
        /\ mempool = call.mempool
        /\ server = call.server
        /\ mined_num = call.mined_num
        /\ LET s == call.nonce.lo + MINING_STEP
           IN  /\ nonce.lo = s % Half
               /\ nonce.hi = (call.nonce.hi + s \div Half) % Half
        /\ call.nonce = U32(0, 0) => nonce = U32(0, MINING_STEP)

\* C7 witness: an impossible mine whose cursor wrapped past 2^32
C7_Witness ==
    /\ pc = "returned"
    /\ call.active
    /\ call.blockchain.difficulty = [i \in 1..HashLen |-> 0]
    /\ ~empty(call.mempool)
    /\ call.nonce = U32(Half - 1, Half - 2)
    /\ nonce.hi = 0

\* C8: on an empty pool a call of mining() returns false and leaves the chain,
\* the pool, the cursor and mined_num as they were and broadcasts nothing;
\* every block the miner commits holds 1..BLOCK_SIZE_LIMIT transactions.
C8_EmptyPoolMine ==
    /\ (pc = "returned" /\ call.active /\ empty(call.mempool)) =>
          /\ ~local.bingo
          /\ blockchain = call.blockchain
          /\ mempool = call.mempool
          /\ nonce = call.nonce
          /\ mined_num = call.mined_num
          /\ server = call.server
    /\ \A h \in DOMAIN blockchain.blocks :
          blockchain.blocks[h] # Block_genesis =>
             /\ Len(blockchain.blocks[h].content.trans) >= 1
             /\ Len(blockchain.blocks[h].content.trans) <= BLOCK_SIZE_LIMIT

\* C8 witness: a call on an empty pool at the all-0xFF target, from a cursor
\* that was not 0, has returned
C8_Witness ==
    /\ pc = "returned"
    /\ call.active
    /\ empty(call.mempool)
    /\ call.blockchain.difficulty = [i \in 1..HashLen |-> 255]
    /\ call.nonce # U32(0, 0)

\* C9: mining_base started at nonce n0 makes at most MINING_STEP probes; it
\* returns true iff some k < MINING_STEP has hash(header with nonce n0 + k
\* mod 2^32) < difficulty, leaving the nonce at n0 + k for the least such k;
\* otherwise it returns false with the nonce at n0 + MINING_STEP mod 2^32; no
\* other header field changes.  Stated of the function and of the miner's
\* run of it.
C9_MiningBase ==
    pc \in {"mining_base", "found_lock_chain"} \/
    (pc = "returned" /\ local.header # << >>) =>
        LET n0 == IF call.active THEN call.nonce ELSE nonce
            h0 == [local.header EXCEPT !.nonce = n0]
            Hit(k) == HashLess(Header_hash([h0 EXCEPT !.nonce = U32Add(n0, k)]),
                               local.difficulty)
            Hits == {k \in 0..(MINING_STEP - 1) : Hit(k)}
            r == mining_base(h0, local.difficulty)
        IN  /\ r.found = (Hits # {})
            /\ r.found => r.header.nonce = U32Add(n0, CHOOSE k \in Hits : \A j \in Hits : k <= j)
            /\ ~r.found => r.header.nonce = U32Add(n0, MINING_STEP)
            /\ [r.header EXCEPT !.nonce = n0] = h0
            /\ local.probes <= MINING_STEP
            /\ pc = "found_lock_chain" => local.probes < MINING_STEP
            /\ pc = "found_lock_chain" \/ (pc = "returned" /\ ~local.bingo) =>
                  /\ local.header = r.header
                  /\ r.found = (pc = "found_lock_chain")
            /\ h0 = Header_new(local.tip, n0, h0.timestamp, local.difficulty,
                               merkle_root(local.content))

\* C9 witness: mining_base has succeeded on the last probe of its budget
C9_Witness ==
    /\ pc = "found_lock_chain"
    /\ call.active
    /\ local.probes = MINING_STEP - 1
    /\ local.header.nonce = U32Add(call.nonce, MINING_STEP - 1)

\* C10: add_with_check returns false and leaves the pool as it was exactly
\* when the hash is already a key, or sign_check fails, or the pool holds
\* POOL_SIZE_LIMIT entries; otherwise it inserts the transaction under its
\* hash, the size grows by one and it returns true.
C10_AddWithCheck ==
    last_add.done =>
        LET before == last_add.before
            tran   == last_add.tran
            reject == \/ tx_hash(tran) \in DOMAIN before
                      \/ ~sign_check(tran)
                      \/ Cardinality(DOMAIN before) >= POOL_SIZE_LIMIT
        IN  /\ last_add.ok = ~reject
            /\ reject => mempool = before
            /\ ~reject =>
                  /\ DOMAIN mempool = DOMAIN before \cup {tx_hash(tran)}
                  /\ mempool[tx_hash(tran)] = tran
                  /\ \A h \in DOMAIN before : mempool[h] = before[h]
                  /\ size(mempool) = size(before) + 1
            /\ size(mempool) <= POOL_SIZE_LIMIT

\* C10 witness: a valid new transaction is refused by a pool that holds
\* POOL_SIZE_LIMIT entries
C10_Witness ==
    /\ last_add.done
    /\ ~last_add.ok
    /\ sign_check(last_add.tran)
    /\ tx_hash(last_add.tran) \notin DOMAIN last_add.before
    /\ size(last_add.before) = POOL_SIZE_LIMIT

\* C11: in every state of a mempool built by new or new_with_trans and changed
\* by add_with_check and remove_trans, every key is the hash of the
\* transaction stored under it (keys are unique transaction hashes) and
\* size() <= POOL_SIZE_LIMIT.
C11_PoolKeyedAndBounded ==
    pc = "pool" =>
        /\ \A h \in DOMAIN mempool : tx_hash(mempool[h]) = h
        /\ size(mempool) <= POOL_SIZE_LIMIT

\* C12: remove_trans(hashes) removes every listed hash that is present,
\* ignores listed hashes that are absent or repeated, and leaves every entry
\* whose hash is not listed unchanged; the size afterwards is the old size
\* minus the number of distinct listed hashes that were present.
C12_RemoveTrans ==
    (pc = "pool" /\ call.active /\ call.op = "remove_trans") =>
        LET before == call.mempool
            listed == {call.hashes[i] : i \in 1..Len(call.hashes)}
        IN  /\ DOMAIN mempool = DOMAIN before \ listed
            /\ \A h \in DOMAIN mempool : mempool[h] = before[h]
            /\ size(mempool) =
                   size(before) - Cardinality(listed \cap DOMAIN before)

\* a call that lists a present hash twice with an absent hash in between, on
\* a pool that keeps an unlisted entry
C12_Witness ==
    /\ pc = "pool" /\ call.active /\ call.op = "remove_trans"
    /\ Len(call.hashes) = 3
    /\ call.hashes[1] \in DOMAIN call.mempool
    /\ call.hashes[2] \notin DOMAIN call.mempool
    /\ call.hashes[3] = call.hashes[1]
    /\ size(call.mempool) = 2
    /\ size(mempool) = 1

\* C13: create_content() returns a Content with exactly
\* min(BLOCK_SIZE_LIMIT, size()) transactions, all of them in the pool and
\* pairwise distinct by hash, and does not change the pool.
C13_CreateContent ==
    (pc = "pool" /\ call.active /\ call.op = "create_content") =>
        LET trans == call.content.trans
        IN  /\ Len(trans) = Min(limit.block_size, size(call.mempool))
            /\ \A i \in 1..Len(trans) :
                  /\ exist(call.mempool, tx_hash(trans[i]))
                  /\ call.mempool[tx_hash(trans[i])] = trans[i]
            /\ \A i, j \in 1..Len(trans) :
                  i # j => tx_hash(trans[i]) # tx_hash(trans[j])
            /\ mempool = call.mempool

\* a content of two transactions taken from a pool that holds more than the
\* block size
C13_Witness ==
    /\ pc = "pool" /\ call.active /\ call.op = "create_content"
    /\ size(call.mempool) > limit.block_size
    /\ Len(call.content.trans) = limit.block_size
    /\ Len(call.content.trans) >= 2

\* C17: a closed control channel is fatal. With every Handle dropped and no
\* signal queued, the step the miner takes at its poll (try_recv in Run, recv
\* in Paused) ends it with the fatal error, in the state it was in and
\* without a burst; once it has ended that way nothing of the miner changes
\* and no burst begins; a signal queued before the closure is delivered
\* first.
C17_ClosedChannelFatal ==
    [][/\ (pc = "loop" /\ Disconnected /\ control_chan = << >>
              /\ operating_state # ShutDown /\ minerVars' # minerVars)
          => (/\ pc' = "panicked"
              /\ operating_state' = operating_state
              /\ count'.bursts = count.bursts
              /\ UNCHANGED << nonce, mined_num, blockchain, mempool, server >>)
       /\ (pc = "panicked")
          => (/\ UNCHANGED minerVars
              /\ count'.bursts = count.bursts)
       /\ (pc = "loop" /\ Disconnected /\ control_chan # << >>
              /\ operating_state # ShutDown /\ minerVars' # minerVars)
          => (/\ pc' # "panicked"
              /\ control_chan' = Tail(control_chan)
              /\ operating_state' = handle_control_signal(Head(control_chan)))
      ]_vars

\* a miner that ran a burst and then ended on the closed channel while
\* running
C17_Witness ==
    /\ pc = "panicked"
    /\ handle = "dropped"
    /\ operating_state.tag = "Run"
    /\ control_chan = << >>
    /\ count.bursts >= 1

\* the headers a header is compared with: itself, the header with one field
\* changed, and the headers of the blocks of the chain
HeadersNear(h) ==
    {h, change_nonce(h),
     [h EXCEPT !.nonce = U32(h.nonce.lo, h.nonce.hi)],
     [h EXCEPT !.timestamp = @ + 1], [h EXCEPT !.timestamp = @ + 256],
     [h EXCEPT !.parent = h.merkle_root],
     [h EXCEPT !.difficulty = h.merkle_root],
     [h EXCEPT !.merkle_root = h.difficulty],
     [h EXCEPT !.parent = h.difficulty, !.difficulty = h.parent]}
    \cup {blockchain.blocks[k].header : k \in DOMAIN blockchain.blocks}

\* C18: the input of Header::hash is the 108-byte concatenation
\* parent (32) | nonce, 4 bytes big-endian | difficulty (32) |
\* timestamp, 8 bytes big-endian | merkle_root (32); two headers have the
\* same input exactly when their five fields are equal; changing the nonce
\* alone changes bytes 32..35 (counted from 0) and no other byte.
C18_HeaderHashInput ==
    pc = "mining_base" =>
        LET h == local.header
            p == HeaderPreimage(h)
            q == HeaderPreimage(change_nonce(h))
        IN  /\ Len(p) = 108
            /\ \A i \in 1..32 : p[i] = h.parent[i]
            /\ \A i \in 1..4 :
                  p[32 + i] =
                      IF i <= 2 THEN (h.nonce.hi \div (256 ^ (2 - i))) % 256
                      ELSE (h.nonce.lo \div (256 ^ (4 - i))) % 256
            /\ \A i \in 1..32 : p[36 + i] = h.difficulty[i]
            /\ \A i \in 1..8 :
                  p[68 + i] =
                      IF i <= 4 THEN 0    \* the timestamps of the model are below 2^31
                      ELSE (h.timestamp \div (256 ^ (8 - i))) % 256
            /\ \A i \in 1..32 : p[76 + i] = h.merkle_root[i]
            /\ \A g \in HeadersNear(h) : (HeaderPreimage(g) = p) <=> (g = h)
            /\ Len(q) = 108
            /\ \A i \in 1..108 : (q[i] # p[i]) => (i \in 33..36)
            /\ \E i \in 33..36 : q[i] # p[i]

\* a header whose nonce has carried into its upper half, so that more than
\* one of the four nonce bytes has changed since the first probe
C18_Witness ==
    /\ pc = "mining_base"
    /\ local.probes = 2
    /\ local.header.nonce = U32(1, 0)
    /\ HeaderPreimage(local.header)[34] = 1
    /\ HeaderPreimage(local.header)[76] = 1

\* C19: while found hands NewBlockHashes to server.broadcast, the miner
\* holds neither the blockchain mutex nor the mempool mutex.
C19_NoLockDuringBroadcast ==
    pc = "found_broadcast" => (chain_lock # "miner" /\ pool_lock # "miner")

\* C20: the miner holds at most one of the two mutexes at a time; in
\* mining() and in found() it takes the blockchain mutex first, releases it,
\* and only then takes the mempool mutex; it never takes the blockchain
\* mutex while it holds the mempool mutex.
C20_OneLockAtATime ==
    [][/\ ~(chain_lock = "miner" /\ pool_lock = "miner")
       /\ (chain_lock # "miner" /\ chain_lock' = "miner")
          => (pool_lock # "miner" /\ pool_lock' # "miner")
       /\ (pool_lock # "miner" /\ pool_lock' = "miner")
          => (/\ chain_lock # "miner" /\ chain_lock' # "miner"
              /\ pc \in {"lock_pool", "found_lock_pool"})
       /\ (pc \in {"mining", "found_lock_chain"} /\ pc' # pc)
          => (chain_lock' = "miner" /\ pool_lock' # "miner")
      ]_vars

\* found holds the mempool mutex, after it took and released the blockchain
\* mutex, while a network worker holds the blockchain mutex
C20_Witness ==
    /\ pc = "found_remove"
    /\ pool_lock = "miner"
    /\ chain_lock = "free"
    /\ local.block.hash \in DOMAIN blockchain.blocks

\* the blocks node n took from its peers
Fetched(n) ==
    {net.node[n].blockchain.blocks[h] :
        h \in DOMAIN net.node[n].blockchain.blocks \ (net.own[n] \cup {ZeroHash})}

\* the hashes of the transactions of a set of blocks
TransOf(blocks) ==
    UNION {{tx_hash(b.content.trans[i]) : i \in 1..Len(b.content.trans)} :
              b \in blocks}

\* C14: once the gossip of NewBlockHashes([h]) has settled, every peer that
\* fetched and inserted the block has none of the block's transactions left
\* in its mempool; a peer whose mempool held exactly those transactions has an
\* empty mempool.
C14_MempoolClearedAcrossNodes ==
    (pc = "net" /\ Settled) =>
        \A n \in Nodes :
            /\ TransOf(Fetched(n)) \cap DOMAIN net.node[n].mempool = {}
            /\ (Fetched(n) # {} /\ DOMAIN net.start[n] = TransOf(Fetched(n)))
                   => empty(net.node[n].mempool)

\* test_mempool_clear: a node inserted a block of both transactions directly
\* and announced it; both peers held the two transactions, fetched the block,
\* the far one through the relay of the middle one, and their pools are empty
C14_Witness ==
    /\ pc = "net" /\ Settled
    /\ net.last.done /\ ~net.last.found
    /\ net.last.node = 3
    /\ \A n \in {1, 2} :
          /\ size(net.start[n]) = 2
          /\ net.last.block.hash \in DOMAIN net.node[n].blockchain.blocks
          /\ empty(net.node[n].mempool)
    /\ size(net.node[3].mempool) = 2

\* the block at the tip of node n's chain
TipBlock(n) ==
    net.node[n].blockchain.blocks[chain_tip(net.node[n].blockchain)]

\* C15: nodes in a line A - B - C with the same genesis and difficulty: when
\* one node commits through found a valid block that extends the common tip,
\* then after the gossip has settled every node's chain is one block longer
\* than before and the tip blocks are equal as whole blocks (hash, index,
\* header, content).
C15_BlockRelay ==
    (pc = "net" /\ Settled /\ net.last.done /\ net.last.found /\ net.last.common) =>
        \A n \in Nodes :
            /\ chain_length(net.node[n].blockchain) = net.last.length + 1
            /\ TipBlock(n) = TipBlock(net.last.node)
            /\ TipBlock(n).hash = net.last.block.hash
            /\ TipBlock(n).index = net.last.length
            /\ TipBlock(n).header = net.last.block.header
            /\ TipBlock(n).content = net.last.block.content

\* the second block of a run, found by the node at one end of the line, has
\* reached the node at the other end
C15_Witness ==
    /\ pc = "net" /\ Settled
    /\ net.last.done /\ net.last.found /\ net.last.common
    /\ net.last.node = 1
    /\ net.last.length = 2
    /\ chain_length(net.node[3].blockchain) = 3
    /\ TipBlock(3).hash = net.last.block.hash

\* C16: mined_num of a miner is the number of blocks it committed through
\* found; when the blocks are mined one at a time, each on the common tip with
\* the gossip settling in between, the chain length on every node is 1 plus
\* the sum of mined_num over all nodes.
C16_MinedNum ==
    pc = "net" =>
        /\ \A n \in Nodes : net.node[n].mined_num = Cardinality(net.by[n])
        /\ (Settled /\ net.serial) =>
               \A n \in Nodes :
                   chain_length(net.node[n].blockchain) =
                       1 + net.node[1].mined_num + net.node[2].mined_num
                         + net.node[3].mined_num

\* two nodes have found one block each, one after the other
C16_Witness ==
    /\ pc = "net" /\ Settled /\ net.serial
    /\ net.commits = 2
    /\ \E n, m \in Nodes :
          /\ n # m
          /\ net.node[n].mined_num = 1
          /\ net.node[m].mined_num = 1
    /\ \A n \in Nodes : chain_length(net.node[n].blockchain) = 3

\* C21 as stated: after a burst that finds no solution the cursor equals the
\* last nonce the burst probed.
C21_CursorIsLastProbed ==
    (pc = "returned" /\ call.active /\ ~local.bingo /\ local.probes > 0) =>
        nonce = local.probed

\* C21, amended: after a burst that finds no solution the cursor is the last
\* nonce the burst probed plus one, modulo 2^32: the first nonce no burst has
\* probed yet.
C21_CursorIsNextUnprobed ==
    (pc = "returned" /\ call.active /\ ~local.bingo /\ local.probes > 0) =>
        /\ local.probes = MINING_STEP
        /\ local.probed = U32Add(call.nonce, MINING_STEP - 1)
        /\ nonce = U32Add(local.probed, 1)
        /\ nonce # local.probed

\* a failed burst that started at 2^32 - 2 and probed across the wrap: the
\* cursor is one past the last nonce hashed
C21_Witness ==
    /\ pc = "returned" /\ call.active /\ ~local.bingo
    /\ local.probes = MINING_STEP
    /\ call.nonce = U32(Half - 1, Half - 2)
    /\ local.probed = U32OfNat(MINING_STEP - 3)
    /\ nonce = U32OfNat(MINING_STEP - 2)

\* the positions of found, in program order, from the winning probe to the
\* return into mining()
FoundOrder ==
    << "mining_base", "found_lock_chain", "found_insert", "found_lock_pool",
       "found_remove", "found_count", "found_broadcast", "found_return",
       "returned" >>

\* the hashes of the transactions of the block found in this burst
FoundHashes ==
    {tx_hash(local.block.content.trans[i]) :
         i \in 1..Len(local.block.content.trans)}

\* C22: in every successful burst found inserts the block into the local
\* chain, then removes its transactions from the mempool, then increments
\* mined_num, then broadcasts NewBlockHashes([block.hash]) exactly once, in
\* that order; a hash is broadcast only when its block is already in the
\* local chain, and a burst that finds no solution broadcasts nothing.
C22_FoundOrder ==
    [][ /\ \* the miner walks through found in program order
           \A i \in 2..(Len(FoundOrder) - 1) :
              /\ (pc = FoundOrder[i] /\ pc' # pc) => pc' = FoundOrder[i + 1]
              /\ (pc' = FoundOrder[i] /\ pc' # pc) => pc = FoundOrder[i - 1]
        /\ \* 1. the insert, with nothing else done yet
           (pc = "found_insert" /\ pc' # pc) =>
              /\ blockchain' = chain_insert(blockchain, local.block)
              /\ local.block.hash \in DOMAIN blockchain'.blocks
              /\ mempool' = mempool /\ mined_num' = mined_num
              /\ server' = server
        /\ \* 2. the removal, after the insert
           (pc = "found_remove" /\ pc' # pc) =>
              /\ local.block.hash \in DOMAIN blockchain.blocks
              /\ mempool' = remove_trans(mempool, local.hash_of_trans)
              /\ blockchain' = blockchain /\ mined_num' = mined_num
              /\ server' = server
        /\ \* 3. the count, after the removal
           (pc = "found_count" /\ pc' # pc) =>
              /\ local.block.hash \in DOMAIN blockchain.blocks
              /\ \A h \in FoundHashes : ~exist(mempool, h)
              /\ mined_num' = mined_num + 1
              /\ blockchain' = blockchain /\ mempool' = mempool
              /\ server' = server
        /\ \* 4. the one broadcast, after the other three
           (server' # server) =>
              /\ pc = "found_broadcast" /\ pc' = "found_return"
              /\ server' = Append(server, NewBlockHashes(<< local.block.hash >>))
              /\ local.block.hash \in DOMAIN blockchain.blocks
              /\ blockchain.blocks[local.block.hash].header = local.block.header
              /\ \A h \in FoundHashes : ~exist(mempool, h)
              /\ mined_num >= 1
        /\ (pc = "found_broadcast" /\ pc' # pc) => server' # server
        /\ \* a burst without a solution returns from mining_base, silently
           (pc = "mining_base" /\ pc' = "returned") =>
              /\ ~local'.bingo
              /\ server' = server /\ mined_num' = mined_num
              /\ blockchain' = blockchain /\ mempool' = mempool
        /\ (pc' = "returned" /\ pc' # pc /\ local'.bingo) => pc = "found_return"
      ]_vars

\* the miner has just broadcast the hash of a block it inserted next to a
\* block from the network
C22_Witness ==
    /\ pc = "found_return"
    /\ server # << >>
    /\ server[Len(server)] = NewBlockHashes(<< local.block.hash >>)
    /\ local.block.hash \in DOMAIN blockchain.blocks
    /\ \E block \in limit.blocks : block.hash \in DOMAIN blockchain.blocks
    /\ mined_num >= 1

\* the positions of a burst after the chain was read
AfterReadPcs ==
    {"lock_pool", "content", "mining_base", "found_lock_chain", "found_insert",
     "found_lock_pool", "found_remove", "found_count", "found_broadcast",
     "found_return"}

\* C26: every block the miner commits has hash < header.difficulty (strict,
\* as big-endian numbers), header.difficulty the chain difficulty and
\* header.parent the tip that this burst read under the chain lock, and
\* header.merkle_root the Merkle root of the block's own content.
C26_CommittedBlockProof ==
    [][ /\ \* the read of this burst, under the chain lock
           (pc = "read_chain" /\ pc' # pc) =>
              /\ chain_lock = "miner"
              /\ local'.tip = chain_tip(blockchain)
              /\ local'.difficulty = chain_difficulty(blockchain)
        /\ \* what was read stays what the burst works with
           (pc \in AfterReadPcs /\ pc' # pc) =>
              /\ local'.tip = local.tip
              /\ local'.difficulty = local.difficulty
        /\ \* the commit
           (pc = "found_insert" /\ pc' # pc) =>
              LET b == local.block
              IN  /\ b.hash = Header_hash(b.header)
                  /\ HashLess(b.hash, b.header.difficulty)
                  /\ b.hash # b.header.difficulty
                  /\ b.header.difficulty = local.difficulty
                  /\ b.header.parent = local.tip
                  /\ b.header.merkle_root = merkle_root(b.content)
                  /\ b.content = local.content
                  /\ b.hash \in DOMAIN blockchain'.blocks
                  /\ blockchain'.blocks[b.hash].header = b.header
                  /\ blockchain'.blocks[b.hash].content = b.content
      ]_vars

\* the miner has committed a block on top of a block from the network, found
\* at a nonce that was not the first one probed
C26_Witness ==
    /\ pc = "found_lock_pool"
    /\ local.probes > 0
    /\ local.block.hash \in DOMAIN blockchain.blocks
    /\ \E block \in limit.blocks : local.block.header.parent = block.hash
    /\ HashLess(local.block.hash, local.block.header.difficulty)

\* C27: the miner removes from the mempool only the transactions of the block
\* it has just committed: a transaction added by another thread after the
\* content was taken, and a transaction that create_content left out, are
\* still in the mempool when found returns, and a burst that finds no solution
\* removes nothing.
C27_FoundRemovesOnlyMined ==
    [][ /\ \* the one step of the miner that changes the mempool
           (pc = "found_remove" /\ pc' # pc) =>
              /\ local.block.hash \in DOMAIN blockchain.blocks
              /\ FoundHashes \subseteq DOMAIN local.pool
              /\ Cardinality(FoundHashes) <= limit.block_size
              /\ DOMAIN mempool' = DOMAIN mempool \ FoundHashes
              /\ \A h \in DOMAIN mempool' : mempool'[h] = mempool[h]
              /\ \* added since the content was taken
                 \A h \in DOMAIN mempool \ DOMAIN local.pool :
                    h \in DOMAIN mempool'
              /\ \* left out of the block
                 \A h \in (DOMAIN local.pool \ FoundHashes) \cap DOMAIN mempool :
                    h \in DOMAIN mempool'
        /\ \* no other step of the miner changes it, in particular none of a
           \* burst that finds no solution
           ((pc' # pc \/ local' # local) /\ pc # "found_remove") =>
              mempool' = mempool
        /\ \* nor does anyone else until found has returned
           pc \in {"found_count", "found_broadcast", "found_return"} =>
              mempool' = mempool
      ]_vars

\* found is about to return, and the mempool holds a transaction that was
\* added after this burst took its content
C27_Witness ==
    /\ pc = "found_return"
    /\ local.block.hash \in DOMAIN blockchain.blocks
    /\ \E h \in DOMAIN mempool : h \notin DOMAIN local.pool
    /\ \A h \in FoundHashes : ~exist(mempool, h)

\* C24 as stated: under every interleaving with the network worker, the block
\* found is about to insert has the tip of the local chain as its parent, and
\* the insert makes the chain one block longer.
C24_CommitsOnTip ==
    pc = "found_insert" =>
        /\ local.block.header.parent = chain_tip(blockchain)
        /\ chain_length(chain_insert(blockchain, local.block)) =
               chain_length(blockchain) + 1

\* C24, amended: every block the miner commits has as its parent the tip this
\* burst read under the chain lock, a block of the local chain.  When no
\* longer branch has arrived since that read, the parent is the tip at the
\* insert, the chain becomes one block longer and the new block is the tip;
\* when a network worker has moved the tip in between, the block is inserted
\* beside the chain, whose tip and length stay as they were.
C24_CommitsOnReadTip ==
    [][ (pc = "found_insert" /\ pc' # pc) =>
           LET b == local.block
           IN  /\ b.header.parent = local.tip
               /\ local.tip \in DOMAIN blockchain.blocks
               /\ b.hash \in DOMAIN blockchain'.blocks
               /\ blockchain'.blocks[b.hash].index =
                      blockchain.blocks[local.tip].index + 1
               /\ (local.tip = chain_tip(blockchain)) =>
                     /\ chain_length(blockchain') = chain_length(blockchain) + 1
                     /\ chain_tip(blockchain') = b.hash
               /\ (local.tip # chain_tip(blockchain)) =>
                     /\ chain_length(blockchain') = chain_length(blockchain)
                     /\ chain_tip(blockchain') = chain_tip(blockchain)
      ]_vars

\* the miner has committed a block on a tip that a block from the network had
\* replaced before the insert: the chain did not grow
C24_Witness ==
    /\ pc = "found_lock_pool"
    /\ local.block.hash \in DOMAIN blockchain.blocks
    /\ local.block.header.parent = local.tip
    /\ chain_tip(blockchain) # local.block.hash
    /\ chain_tip(blockchain) \in {block.hash : block \in limit.blocks}
    /\ blockchain.blocks[local.block.hash].index =
           blockchain.blocks[chain_tip(blockchain)].index

RECURSIVE PathFrom(_, _)
\* the hashes of the blocks on the path from block h down to genesis
PathFrom(chain, h) ==
    IF h \notin DOMAIN chain.blocks THEN {}
    ELSE IF chain.blocks[h].index = 0 THEN {h}
    ELSE {h} \cup PathFrom(chain, chain.blocks[h].header.parent)

\* C25: on one node, under every interleaving of the miner, the network
\* worker and the transaction generator, no transaction hash appears in two
\* blocks on the path from the tip of the chain to genesis: the miner never
\* commits a transaction that a block of its chain already contains.
C25_NoTransactionTwice ==
    \A a, b \in PathFrom(blockchain, chain_tip(blockchain)) :
        a # b =>
            TransOf({blockchain.blocks[a]}) \cap TransOf({blockchain.blocks[b]}) = {}

\* an Exit has been sent and not yet received
ExitQueued == \E i \in 1..Len(control_chan) : control_chan[i] = Exit

\* C23: when the scheduler is fair to the miner thread, an Exit that has been
\* sent leads to the miner in ShutDown with its worker returned, whether the
\* miner was Paused or Run(i) at that moment and whatever was queued before
\* the Exit; signals are applied oldest first, one per iteration of the loop.
C23_ShutdownLiveness ==
    /\ ExitQueued ~> (operating_state = ShutDown /\ pc = "done")
    /\ [][ (control_chan' # control_chan) =>
              \/ /\ \E signal \in {Exit, PausedSignal} \cup {Start(l) : l \in Lambdas} :
                       control_chan' = Append(control_chan, signal)
                 /\ operating_state' = operating_state
                 /\ pc' = pc
              \/ /\ pc = "loop"
                 /\ control_chan # << >>
                 /\ control_chan' = Tail(control_chan)
                 /\ operating_state' = handle_control_signal(Head(control_chan))
                 /\ operating_state.tag = "Run" => pc' \in {"mining", "done"}
                 /\ operating_state.tag = "Paused" => pc' = "loop"
         ]_vars

\* the worker has returned after an Exit that was sent to a running miner
\* behind another signal, and a signal sent after the Exit is left in the
\* queue
C23_Witness ==
    /\ pc = "done"
    /\ operating_state = ShutDown
    /\ exit_sent.sent
    /\ exit_sent.ahead >= 1
    /\ control_chan # << >>

====
